---- MODULE Spec2Model ----
(***************************************************************************)
(* Model of the character-network analysis pipeline:                       *)
(*   src/app/api/text/route.ts   POST handler (cache lookup, chunking,     *)
(*                               parallel extraction, merge, cache write)  *)
(*   src/app/utils.ts            getCharacterConnections,                  *)
(*                               transformCharacterData                    *)
(*   src/components/network-graph.tsx   the simulation effect's links      *)
(*   src/app/api/books/[id]/route.ts, title/route.ts   GET handlers        *)
(*   src/app/page.tsx            Home.handleSubmit and its timer           *)
(*                                                                         *)
(* Scaling.  The handler's numeric constants are far too large to          *)
(* enumerate, so they are kept by name and scaled down:                    *)
(*   CHUNK_SIZE 10000 -> 2, the 100000 truncation limit -> 4, the          *)
(*   50-character key slice -> 3, CACHE_TTL 86400 s -> 2 ticks.          *)
(* Text is a sequence of ASCII bytes (one UTF-16 unit = one UTF-8 byte).   *)
(* JavaScript objects are modelled as functions over their own keys;       *)
(* character names are ordinary strings (not names of Object.prototype     *)
(* members), counts are integers.                                          *)
(* A redis.set that throws has not written; the 2000 ms timer of the page  *)
(* is 2 ticks.                                                             *)
(***************************************************************************)
EXTENDS Integers, Sequences, FiniteSets, TLC

\* ------------------------------------------------------------------ bounds
MaxTime == 2
MaxSegTextLen == 5
MaxSegLimit == 4
MaxSegChunk == 3
MaxFoldLen == 3
MaxEdges == 3
MaxCount == 2

\* Two POST requests, free to run one after the other or to overlap.
Requests == {1, 2}

\* ------------------------------------------------- program constants (scaled)
CHUNK_SIZE == 2
CACHE_TTL == 2
MAX_INPUT_LENGTH == 4
KEY_SLICE == 3

\* ------------------------------------------------------------ pure helpers
Min(a, b) == IF a < b THEN a ELSE b

\* String.prototype.slice(a, b) for 0 <= a, 0 <= b (0-based, end exclusive).
Slice(s, a, b) == SubSeq(s, a + 1, Min(b, Len(s)))

\* One base64 quantum: 1..3 bytes -> 4 symbols (0..63, 64 is the pad '=').
Base64Quantum(g) ==
  LET b1 == g[1]
      b2 == IF Len(g) >= 2 THEN g[2] ELSE 0
      b3 == IF Len(g) >= 3 THEN g[3] ELSE 0
      n  == b1 * 65536 + b2 * 256 + b3
  IN  << n \div 262144,
         (n \div 4096) % 64,
         IF Len(g) >= 2 THEN (n \div 64) % 64 ELSE 64,
         IF Len(g) >= 3 THEN n % 64 ELSE 64 >>

RECURSIVE Base64(_)
Base64(bytes) ==
  IF Len(bytes) = 0 THEN << >>
  ELSE Base64Quantum(Slice(bytes, 0, 3)) \o Base64(Slice(bytes, 3, Len(bytes)))

\* The key fingerprints the whole text (no slice).
CacheKeyWhole(text) == Base64(text)

\* cacheKey = `analysis:${Buffer.from(bookText).toString('base64').slice(0, 50)}`
CacheKey(text) == Slice(Base64(text), 0, KEY_SLICE)

\* Off-by-one slice end: consecutive chunks overlap by one character.
SegmentStepOverlap(st) ==
  [st EXCEPT !.chunks = Append(@, Slice(st.truncatedText, st.i, st.i + st.size + 1)),
             !.i = @ + st.size]

\* The loop advances one character too far: a character is dropped
\* between consecutive chunks.
SegmentStepSkip(st) ==
  [st EXCEPT !.chunks = Append(@, Slice(st.truncatedText, st.i, st.i + st.size)),
             !.i = @ + st.size + 1]

\* One iteration of the chunking loop: chunks.push(text.slice(i, i + size)).
SegmentStep(st) ==
  [st EXCEPT !.chunks = Append(@, Slice(st.truncatedText, st.i, st.i + st.size)),
             !.i = @ + st.size]

RECURSIVE SegmentLoop(_)
SegmentLoop(st) ==
  IF st.i < Len(st.truncatedText) THEN SegmentLoop(SegmentStep(st)) ELSE st.chunks

\* truncate, then split: the handler's lines 55-61 for given limit and size.
Segment(text, maxInputLength, chunkSize) ==
  SegmentLoop([truncatedText |-> Slice(text, 0, maxInputLength),
               size |-> chunkSize, i |-> 0, chunks |-> << >>])

\* ------------------------------------------------------------------ merge
EmptyGraph == << >>

Keys(obj) == DOMAIN obj

\* The entry is reset to { interactions: 0 } even when it already exists.
ExistingReset(merged, char1, char2) == 0

\* The value the merge reads for mergedInteractions[char1][char2] after the
\* two "create if missing" guards: an absent entry starts at interactions 0.
Existing(merged, char1, char2) ==
  IF char1 \in Keys(merged) /\ char2 \in Keys(merged[char1])
  THEN merged[char1][char2].interactions
  ELSE 0

\* "=" written for "+=": the last response's count replaces the total.
AccumulateOverwrite(old, data) == data.interactions

\* mergedInteractions[char1][char2].interactions += data.interactions
Accumulate(old, data) == old + data.interactions

\* The body of chunkResults.forEach for one parsed response: every
\* (char1, char2, data) of `interactions` is added into `merged`; keys of
\* `merged` that the response does not mention are left as they are.
MergeInteractions(merged, interactions) ==
  [char1 \in Keys(merged) \cup Keys(interactions) |->
     LET had == IF char1 \in Keys(merged) THEN Keys(merged[char1]) ELSE {}
         got == IF char1 \in Keys(interactions) THEN Keys(interactions[char1]) ELSE {}
     IN  [char2 \in had \cup got |->
            IF char2 \in got
            THEN [interactions |->
                    Accumulate(Existing(merged, char1, char2), interactions[char1][char2])]
            ELSE merged[char1][char2]]]

\* jsonSchema: every pair carries an integer "interactions" >= 1.
SchemaValid(g) ==
  \A a \in Keys(g) : \A b \in Keys(g[a]) : g[a][b].interactions >= 1

\* if (!result.choices[0]?.message?.content) return;
Skipped(res) == res.kind = "empty"

\* The empty-content guard is missing: JSON.parse is reached with no
\* content and throws.
ParseThrowsOnEmpty(res) == res.kind \in {"unparsable", "empty"}

\* JSON.parse(content.replace(/```json/g, "").replace(/```/g, "")) throws.
ParseThrows(res) == res.kind = "unparsable"

\* The fold of one chunk result into the running graph (no throw case).
MergeResult(merged, res) ==
  IF Skipped(res) THEN merged ELSE MergeInteractions(merged, res.value)

RECURSIVE MergeAll(_, _)
MergeAll(merged, results) ==
  IF Len(results) = 0 THEN merged
  ELSE MergeAll(MergeResult(merged, Head(results)), Tail(results))

\* ---------------------------------------------------------------- inputs
Edge(a, b, n) == a :> (b :> [interactions |-> n])

Characters == {"Alice", "Bob"}

\* Request bodies: empty, one chunk, and two two-chunk texts that share the
\* fingerprinted prefix.
Texts ==
  { << >>, <<97>>, <<97, 98, 97>>, <<97, 98, 98>> }

\* Parsed model responses: two schema-conforming ones and one with a count
\* the schema forbids (interactions = 0).
Graphs ==
  { Edge("Alice", "Bob", 2),
    Edge("Alice", "Bob", 1) @@ Edge("Bob", "Alice", 3),
    Edge("Alice", "Bob", 2) @@ Edge("Bob", "Alice", 0) }

Pending == [kind |-> "pending"]
Rejected == [kind |-> "rejected"]
EmptyContent == [kind |-> "empty"]
Unparsable == [kind |-> "unparsable"]
Json(g) == [kind |-> "json", value |-> g]

\* What one groq.chat.completions.create call can end with.
Outcomes == {Rejected, EmptyContent, Unparsable} \cup {Json(g) : g \in Graphs}

CacheKeys == {CacheKey(t) : t \in Texts}
Absent == [present |-> FALSE]

\* ------------------------------------------------------------------ state
VARIABLES
  redis,         \* the Upstash store: cache key -> entry or Absent
  now,           \* clock, in TTL ticks
  pc,            \* per request: where the POST handler is suspended
  bookText,      \* per request: the request body
  chunks,        \* per request: the chunks array
  chunkResults,  \* per request: outcome of each launched completion call
  result,        \* per request: the AnalysisResult built by the merge
  response,      \* per request: the NextResponse returned
  cachedResult,  \* per request: what redis.get returned
  calls,         \* history: completion calls issued by the request
  lookupAt,      \* history: time of the request's redis.get, -1 if none
  wroteAt,       \* history: time of the request's redis.set, -1 if none
  doneBefore,    \* history: requests that had returned when this one began
  seg,           \* the chunking loop run on its own (SegSpec)
  fold,          \* the merge loop run on its own (FoldSpec)
  util,          \* the functions of utils.ts run on their own (UtilSpec)
  book,          \* the book text and title routes with their store (BookSpec)
  home,          \* the Home page: its state and its handleSubmit calls (HomeSpec)
  net            \* the NetworkGraph simulation effect (GraphSpec)

vars ==
  << redis, now, pc, bookText, chunks, chunkResults, result, response,
     cachedResult, calls, lookupAt, wroteAt, doneBefore, seg, fold, util,
     book, home, net >>

handlerVars ==
  << redis, now, pc, bookText, chunks, chunkResults, result, response,
     cachedResult, calls, lookupAt, wroteAt, doneBefore >>

siteVars == << book, home, net >>

NoResponse == [status |-> 0]
NotRead == [read |-> FALSE]
Threw == [threw |-> TRUE]
NoResult == [built |-> FALSE]

\* NextResponse.json({ error: ... }, { status })
ErrorResponse(code) == [status |-> code]
\* NextResponse.json(value)
JsonResponse(value) == [status |-> 200, body |-> value]

\* The read never finds the entry (it asks for a key the write never used).
LookupOtherKey(key) == Absent

\* The hit test also asks for a non-empty graph
\* (cachedResult && Object.keys(cachedResult.interactions).length).
LookupNonEmpty(key) ==
  IF /\ redis[key].present
     /\ now < redis[key].expires
     /\ redis[key].value.interactions # EmptyGraph
  THEN redis[key] ELSE Absent

\* redis.get: an entry past its expiry reads as null.
Lookup(key) ==
  IF redis[key].present /\ now < redis[key].expires THEN redis[key] ELSE Absent

HandlerInit ==
  /\ redis = [k \in CacheKeys |-> Absent]
  /\ now = 0
  /\ pc = [r \in Requests |-> "idle"]
  /\ bookText = [r \in Requests |-> << >>]
  /\ chunks = [r \in Requests |-> << >>]
  /\ chunkResults = [r \in Requests |-> << >>]
  /\ result = [r \in Requests |-> NoResult]
  /\ response = [r \in Requests |-> NoResponse]
  /\ cachedResult = [r \in Requests |-> NotRead]
  /\ calls = [r \in Requests |-> 0]
  /\ lookupAt = [r \in Requests |-> -1]
  /\ wroteAt = [r \in Requests |-> -1]
  /\ doneBefore = [r \in Requests |-> {}]

\* The other routes and the page are not running.
SiteIdle ==
  /\ book = [pc |-> "off"]
  /\ home = [pc |-> "off"]
  /\ net = [pc |-> "off"]

PureIdle ==
  /\ seg = [pc |-> "off"]
  /\ fold = [pc |-> "off"]
  /\ util = [pc |-> "off"]
  /\ SiteIdle

Init == HandlerInit /\ PureIdle

\* return <response>: the handler is finished.
Return(r, resp) ==
  /\ pc' = [pc EXCEPT ![r] = "done"]
  /\ response' = [response EXCEPT ![r] = resp]

\* The "Book text is required" guard is missing: every body goes on.
ReceiveUnchecked(r, text) ==
  /\ pc[r] = "idle"
  /\ bookText' = [bookText EXCEPT ![r] = text]
  /\ doneBefore' = [doneBefore EXCEPT ![r] = {q \in Requests : pc[q] = "done"}]
  /\ pc' = [pc EXCEPT ![r] = "lookup"]
  /\ UNCHANGED << redis, now, chunks, chunkResults, result, response,
                  cachedResult, calls, lookupAt, wroteAt, seg, fold, util, siteVars >>

\* Lines 30-45: read the body, reject an empty one, else issue redis.get.
Receive(r, text) ==
  /\ pc[r] = "idle"
  /\ bookText' = [bookText EXCEPT ![r] = text]
  /\ doneBefore' = [doneBefore EXCEPT ![r] = {q \in Requests : pc[q] = "done"}]
  /\ IF Len(text) = 0
     THEN Return(r, ErrorResponse(400))
     ELSE /\ pc' = [pc EXCEPT ![r] = "lookup"]
          /\ UNCHANGED response
  /\ UNCHANGED << redis, now, chunks, chunkResults, result, cachedResult,
                  calls, lookupAt, wroteAt, seg, fold, util, siteVars >>

\* The "return" of the hit branch is missing: a hit falls through to the
\* chunking and the completion calls.
CacheGetFallsThrough(r) ==
  /\ pc[r] = "lookup"
  /\ LET cached == Lookup(CacheKey(bookText[r]))
         cs == Segment(bookText[r], MAX_INPUT_LENGTH, CHUNK_SIZE)
     IN  /\ cachedResult' = [cachedResult EXCEPT ![r] = cached]
         /\ lookupAt' = [lookupAt EXCEPT ![r] = now]
         /\ pc' = [pc EXCEPT ![r] = "extracting"]
         /\ chunks' = [chunks EXCEPT ![r] = cs]
         /\ chunkResults' =
              [chunkResults EXCEPT ![r] = [i \in 1..Len(cs) |-> Pending]]
         /\ calls' = [calls EXCEPT ![r] = @ + Len(cs)]
  /\ UNCHANGED << redis, now, bookText, result, response, wroteAt, doneBefore,
                  seg, fold, util, siteVars >>

\* Lines 45-48 (hit) and 50-119 (miss): redis.get has answered.
CacheGet(r) ==
  /\ pc[r] = "lookup"
  /\ LET cached == Lookup(CacheKey(bookText[r]))
         cs == Segment(bookText[r], MAX_INPUT_LENGTH, CHUNK_SIZE)
     IN  /\ cachedResult' = [cachedResult EXCEPT ![r] = cached]
         /\ lookupAt' = [lookupAt EXCEPT ![r] = now]
         /\ IF cached.present
            THEN /\ Return(r, JsonResponse(cached.value))
                 /\ UNCHANGED << chunks, chunkResults, calls >>
            ELSE /\ pc' = [pc EXCEPT ![r] = "extracting"]
                 /\ chunks' = [chunks EXCEPT ![r] = cs]
                 /\ chunkResults' =
                      [chunkResults EXCEPT ![r] = [i \in 1..Len(cs) |-> Pending]]
                 /\ calls' = [calls EXCEPT ![r] = @ + Len(cs)]
                 /\ UNCHANGED response
  /\ UNCHANGED << redis, now, bookText, result, wroteAt, doneBefore, seg, fold, util, siteVars >>

\* Line 45 throws (store unreachable): caught at line 154.
CacheGetFails(r) ==
  /\ pc[r] = "lookup"
  /\ cachedResult' = [cachedResult EXCEPT ![r] = Threw]
  /\ lookupAt' = [lookupAt EXCEPT ![r] = now]
  /\ Return(r, ErrorResponse(500))
  /\ UNCHANGED << redis, now, bookText, chunks, chunkResults, result, calls,
                  wroteAt, doneBefore, seg, fold, util, siteVars >>

\* A rejected completion call is issued once more before the join gives up.
ChunkSettlesRetry(r, i, outcome) ==
  /\ pc[r] = "extracting"
  /\ i \in 1..Len(chunkResults[r])
  /\ chunkResults[r][i] = Pending
  /\ IF outcome = Rejected /\ calls[r] <= Len(chunks[r])
     THEN /\ calls' = [calls EXCEPT ![r] = @ + 1]
          /\ UNCHANGED << chunkResults, pc, response >>
     ELSE /\ chunkResults' = [chunkResults EXCEPT ![r][i] = outcome]
          /\ UNCHANGED calls
          /\ IF outcome = Rejected
             THEN Return(r, ErrorResponse(500))
             ELSE UNCHANGED << pc, response >>
  /\ UNCHANGED << redis, now, bookText, chunks, result, cachedResult,
                  lookupAt, wroteAt, doneBefore, seg, fold, util, siteVars >>

\* One completion call settles.  A rejection rejects Promise.all at once
\* (line 119) and the catch block answers 500.  Calls still in flight when
\* the handler has returned are not followed: nothing reads their results.
ChunkSettles(r, i, outcome) ==
  /\ pc[r] = "extracting"
  /\ i \in 1..Len(chunkResults[r])
  /\ chunkResults[r][i] = Pending
  /\ chunkResults' = [chunkResults EXCEPT ![r][i] = outcome]
  /\ IF outcome = Rejected
     THEN Return(r, ErrorResponse(500))
     ELSE UNCHANGED << pc, response >>
  /\ UNCHANGED << redis, now, bookText, chunks, result, cachedResult, calls,
                  lookupAt, wroteAt, doneBefore, seg, fold, util, siteVars >>

\* The join waits for the first settled call only (Promise.race for
\* Promise.all) and merges what has arrived.
AggregateEarly(r) ==
  /\ pc[r] = "extracting"
  /\ \E i \in 1..Len(chunkResults[r]) : chunkResults[r][i] \notin {Pending, Rejected}
  /\ LET arrived == SelectSeq(chunkResults[r], LAMBDA x : x \notin {Pending, Rejected})
     IN  IF \E i \in 1..Len(arrived) : ParseThrows(arrived[i])
         THEN /\ Return(r, ErrorResponse(500))
              /\ UNCHANGED result
         ELSE /\ result' = [result EXCEPT ![r] =
                     [built |-> TRUE,
                      value |-> [interactions |-> MergeAll(EmptyGraph, arrived)]]]
              /\ pc' = [pc EXCEPT ![r] = "caching"]
              /\ UNCHANGED response
  /\ UNCHANGED << redis, now, bookText, chunks, chunkResults, cachedResult,
                  calls, lookupAt, wroteAt, doneBefore, seg, fold, util, siteVars >>

\* Lines 119-151: Promise.all resolved; merge, then issue redis.set.
\* A JSON.parse that throws leaves the forEach and is caught at line 154.
Aggregate(r) ==
  /\ pc[r] = "extracting"
  /\ \A i \in 1..Len(chunkResults[r]) : chunkResults[r][i] \notin {Pending, Rejected}
  /\ IF \E i \in 1..Len(chunkResults[r]) : ParseThrows(chunkResults[r][i])
     THEN /\ Return(r, ErrorResponse(500))
          /\ UNCHANGED result
     ELSE /\ result' = [result EXCEPT ![r] =
                 [built |-> TRUE,
                  value |-> [interactions |-> MergeAll(EmptyGraph, chunkResults[r])]]]
          /\ pc' = [pc EXCEPT ![r] = "caching"]
          /\ UNCHANGED response
  /\ UNCHANGED << redis, now, bookText, chunks, chunkResults, cachedResult,
                  calls, lookupAt, wroteAt, doneBefore, seg, fold, util, siteVars >>

\* redis.set with { nx: true }: a live entry is kept, the first write wins.
CacheSetIfAbsent(r) ==
  /\ pc[r] = "caching"
  /\ redis' = IF Lookup(CacheKey(bookText[r])).present
              THEN redis
              ELSE [redis EXCEPT ![CacheKey(bookText[r])] =
                      [present |-> TRUE, value |-> result[r].value,
                       expires |-> now + CACHE_TTL]]
  /\ wroteAt' = [wroteAt EXCEPT ![r] = now]
  /\ Return(r, JsonResponse(result[r].value))
  /\ UNCHANGED << now, bookText, chunks, chunkResults, result, cachedResult,
                  calls, lookupAt, doneBefore, seg, fold, util, siteVars >>

\* Lines 151-153: redis.set has answered; return the result.
CacheSet(r) ==
  /\ pc[r] = "caching"
  /\ redis' = [redis EXCEPT ![CacheKey(bookText[r])] =
                 [present |-> TRUE, value |-> result[r].value,
                  expires |-> now + CACHE_TTL]]
  /\ wroteAt' = [wroteAt EXCEPT ![r] = now]
  /\ Return(r, JsonResponse(result[r].value))
  /\ UNCHANGED << now, bookText, chunks, chunkResults, result, cachedResult,
                  calls, lookupAt, doneBefore, seg, fold, util, siteVars >>

\* Line 151 throws (store unreachable): caught at line 154.
CacheSetFails(r) ==
  /\ pc[r] = "caching"
  /\ Return(r, ErrorResponse(500))
  /\ UNCHANGED << redis, now, bookText, chunks, chunkResults, result,
                  cachedResult, calls, lookupAt, wroteAt, doneBefore, seg, fold, util, siteVars >>

Tick ==
  /\ now < MaxTime
  /\ now' = now + 1
  /\ UNCHANGED << redis, pc, bookText, chunks, chunkResults, result, response,
                  cachedResult, calls, lookupAt, wroteAt, doneBefore, seg, fold, util, siteVars >>

Next ==
  \/ \E r \in Requests, text \in Texts : Receive(r, text)
  \/ \E r \in Requests : CacheGet(r)
  \/ \E r \in Requests : CacheGetFails(r)
  \/ \E r \in Requests, o \in Outcomes :
       \E i \in 1..Len(chunkResults[r]) : ChunkSettles(r, i, o)
  \/ \E r \in Requests : Aggregate(r)
  \/ \E r \in Requests : CacheSet(r)
  \/ \E r \in Requests : CacheSetFails(r)
  \/ Tick

Spec == Init /\ [][Next]_vars

TypeOK ==
  /\ now \in 0..MaxTime
  /\ \A r \in Requests : pc[r] \in {"idle", "lookup", "extracting", "caching", "done"}

\* ------------------------------------------- the chunking loop on its own
BoundedSeqs(S, n) == UNION {[1..k -> S] : k \in 0..n}

SegInit ==
  /\ HandlerInit
  /\ fold = [pc |-> "off"]
  /\ util = [pc |-> "off"]
  /\ SiteIdle
  /\ \E text \in BoundedSeqs({97, 98}, MaxSegTextLen),
        maxInputLength \in 0..MaxSegLimit,
        chunkSize \in 1..MaxSegChunk :
       seg = [pc |-> "loop", text |-> text, maxInputLength |-> maxInputLength,
              truncatedText |-> Slice(text, 0, maxInputLength),
              size |-> chunkSize, i |-> 0, chunks |-> << >>]

\* for (let i = 0; i < truncatedText.length; i += CHUNK_SIZE) { push }
SegLoopStep ==
  /\ seg.pc = "loop"
  /\ seg.i < Len(seg.truncatedText)
  /\ seg' = SegmentStep(seg)
  /\ UNCHANGED << handlerVars, fold, util, siteVars >>

SegLoopExit ==
  /\ seg.pc = "loop"
  /\ ~(seg.i < Len(seg.truncatedText))
  /\ seg' = [seg EXCEPT !.pc = "done"]
  /\ UNCHANGED << handlerVars, fold, util, siteVars >>

SegNext == SegLoopStep \/ SegLoopExit

SegSpec == SegInit /\ [][SegNext]_vars

\* ---------------------------------------------- the merge loop on its own
\* Parsed responses for the fold: as Graphs, plus the empty object, an outer
\* key with no relations, and a negative count.
FoldGraphs ==
  Graphs \cup { EmptyGraph, "Alice" :> EmptyGraph, Edge("Bob", "Alice", -1) }

\* Results the forEach folds without throwing.
FoldResults == {EmptyContent} \cup {Json(g) : g \in FoldGraphs}

Orderings(n) == {p \in [1..n -> 1..n] : \A i, j \in 1..n : p[i] = p[j] => i = j}

FoldInit ==
  /\ HandlerInit
  /\ seg = [pc |-> "off"]
  /\ util = [pc |-> "off"]
  /\ SiteIdle
  /\ \E partials \in BoundedSeqs(FoldResults, MaxFoldLen) :
       \E perm \in Orderings(Len(partials)) :
         fold = [pc |-> "loop", partials |-> partials, perm |-> perm, idx |-> 0,
                 merged |-> EmptyGraph, mergedPerm |-> EmptyGraph]

\* One forEach iteration, run on the sequence and on its permutation.
FoldStep ==
  /\ fold.pc = "loop"
  /\ fold.idx < Len(fold.partials)
  /\ fold' = [fold EXCEPT
       !.idx = @ + 1,
       !.merged = MergeResult(@, fold.partials[fold.idx + 1]),
       !.mergedPerm = MergeResult(@, fold.partials[fold.perm[fold.idx + 1]])]
  /\ UNCHANGED << handlerVars, seg, util, siteVars >>

FoldExit ==
  /\ fold.pc = "loop"
  /\ fold.idx = Len(fold.partials)
  /\ fold' = [fold EXCEPT !.pc = "done"]
  /\ UNCHANGED << handlerVars, seg, util, siteVars >>

FoldNext == FoldStep \/ FoldExit

FoldSpec == FoldInit /\ [][FoldNext]_vars

\* ------------------------------------------------------------ utils.ts
\* A JavaScript object is read in the insertion order of its keys; `order`
\* lists the names in that order (one order for every object of a run).
Entries(obj, order) == SelectSeq(order, LAMBDA k : k \in Keys(obj))

Null == [isNull |-> TRUE]
Data(g) == [isNull |-> FALSE, value |-> g]

\* The comparator with its operands swapped: ascending order.
CompareAscending(a, b) == a.interactions - b.interactions

\* (a, b) => b.interactions - a.interactions
Compare(a, b) == b.interactions - a.interactions

\* Array.prototype.sort is stable: x goes before the first element that
\* the comparator puts after it.
RECURSIVE SortInsert(_, _)
SortInsert(sorted, x) ==
  IF Len(sorted) = 0 THEN << x >>
  ELSE IF Compare(Head(sorted), x) > 0
       THEN << x >> \o sorted
       ELSE << Head(sorted) >> \o SortInsert(Tail(sorted), x)

RECURSIVE Sort(_)
Sort(xs) ==
  IF Len(xs) = 0 THEN << >>
  ELSE SortInsert(Sort(SubSeq(xs, 1, Len(xs) - 1)), xs[Len(xs)])

\* Lines 26-33: the connections where the character is the source.
Outgoing(characterName, data, order) ==
  IF characterName \in Keys(data)
  THEN LET targets == Entries(data[characterName], order)
       IN  [i \in 1..Len(targets) |->
              [character |-> targets[i],
               interactions |-> data[characterName][targets[i]].interactions]]
  ELSE << >>

\* Lines 36-47: the connections where the character is a target, added
\* unless a connection to that source is already there.
RECURSIVE Incoming(_, _, _, _)
Incoming(connections, characterName, data, sources) ==
  IF Len(sources) = 0 THEN connections
  ELSE LET sourceName == Head(sources)
           existingConnection ==
             \E i \in 1..Len(connections) : connections[i].character = sourceName
           added ==
             IF /\ sourceName # characterName
                /\ characterName \in Keys(data[sourceName])
                /\ ~existingConnection
             THEN Append(connections,
                    [character |-> sourceName,
                     interactions |-> data[sourceName][characterName].interactions])
             ELSE connections
       IN  Incoming(added, characterName, data, Tail(sources))

\* The incoming pass does not look at what the outgoing pass collected.
getCharacterConnectionsNoFind(characterName, characterData, order) ==
  IF characterData.isNull THEN << >>
  ELSE LET data == characterData.value
       IN  Sort(Outgoing(characterName, data, order)
                \o Incoming(<< >>, characterName, data, Entries(data, order)))

getCharacterConnections(characterName, characterData, order) ==
  IF characterData.isNull THEN << >>
  ELSE LET data == characterData.value
       IN  Sort(Incoming(Outgoing(characterName, data, order), characterName,
                         data, Entries(data, order)))

\* Lines 67-70: the sum of a character's outgoing counts.
RECURSIVE TotalInteractions(_, _)
TotalInteractions(interactions, targets) ==
  IF Len(targets) = 0 THEN 0
  ELSE interactions[Head(targets)].interactions
       + TotalInteractions(interactions, Tail(targets))

\* Lines 84-95: the links of one source, kept when both ends are in nodeMap.
LinksOf(source, data, order) ==
  LET targets == SelectSeq(Entries(data[source], order),
                           LAMBDA target : source \in Keys(data) /\ target \in Keys(data))
  IN  [i \in 1..Len(targets) |->
         [source |-> source, target |-> targets[i],
          value |-> data[source][targets[i]].interactions]]

RECURSIVE AllLinks(_, _, _)
AllLinks(sources, data, order) ==
  IF Len(sources) = 0 THEN << >>
  ELSE LinksOf(Head(sources), data, order) \o AllLinks(Tail(sources), data, order)

transformCharacterData(characterData, order) ==
  IF characterData.isNull THEN [nodes |-> << >>, links |-> << >>]
  ELSE LET data == characterData.value
           characters == Entries(data, order)
       IN  [nodes |-> [i \in 1..Len(characters) |->
                         [id |-> characters[i], name |-> characters[i],
                          value |-> TotalInteractions(data[characters[i]],
                                      Entries(data[characters[i]], order))]],
            links |-> AllLinks(characters, data, order)]

UtilNames == {"Alice", "Bob", "Carol"}

\* The graph with the pairs of E, counted by w, and the outer keys K as well.
GraphOf(E, w, K) ==
  [a \in K \cup {e[1] : e \in E} |->
     [b \in {e[2] : e \in {x \in E : x[1] = a}} |-> [interactions |-> w[<<a, b>>]]]]

\* Every interaction graph over UtilNames with at most MaxEdges pairs and
\* counts 1..MaxCount, and no data at all.
UtilData ==
  {Null} \cup
  UNION { UNION { {Data(GraphOf(E, w, K)) : K \in SUBSET UtilNames} :
                  w \in [E -> 1..MaxCount] } :
          E \in {X \in SUBSET (UtilNames \X UtilNames) : Cardinality(X) <= MaxEdges} }

KeyOrders == {o \in [1..Cardinality(UtilNames) -> UtilNames] :
                \A i, j \in DOMAIN o : o[i] = o[j] => i = j}

UtilInit ==
  /\ HandlerInit
  /\ seg = [pc |-> "off"]
  /\ fold = [pc |-> "off"]
  /\ SiteIdle
  /\ \E characterData \in UtilData, order \in KeyOrders :
       util = [pc |-> "ready", characterData |-> characterData, order |-> order,
               characterName |-> "", connections |-> << >>,
               graphData |-> [nodes |-> << >>, links |-> << >>]]

\* CharacterDialog asks for the connections of the selected node.
GetConnections(characterName) ==
  /\ util.pc = "ready"
  /\ util' = [util EXCEPT
       !.pc = "connections",
       !.characterName = characterName,
       !.connections = getCharacterConnections(characterName, util.characterData,
                                               util.order)]
  /\ UNCHANGED << handlerVars, seg, fold, siteVars >>

\* Home turns the returned interactions into the graph data.
Transform ==
  /\ util.pc = "ready"
  /\ util' = [util EXCEPT
       !.pc = "graph",
       !.graphData = transformCharacterData(util.characterData, util.order)]
  /\ UNCHANGED << handlerVars, seg, fold, siteVars >>

UtilNext ==
  \/ \E characterName \in UtilNames : GetConnections(characterName)
  \/ Transform

UtilSpec == UtilInit /\ [][UtilNext]_vars

\* ---------------------------------------------------- network-graph.tsx
MaxPropNodes == 2
MaxPropLinks == 2

\* A link end is a node id or a node object (lines 171-172).
EndId(e) == IF e.isString THEN e.id ELSE e.node.id

StringEnd(id) == [isString |-> TRUE, id |-> id]
NodeEnd(node) == [isString |-> FALSE, node |-> node]

\* Lines 163-166: nodeMap.set(node.id, node) in array order; a later node
\* with the same id replaces the earlier one.
RECURSIVE NodeMap(_)
NodeMap(simulationNodes) ==
  IF Len(simulationNodes) = 0 THEN << >>
  ELSE LET last == simulationNodes[Len(simulationNodes)]
           rest == NodeMap(SubSeq(simulationNodes, 1, Len(simulationNodes) - 1))
       IN  (last.id :> last) @@ rest

\* Every link is kept, with its ends left as they came.
MappedLinkUnresolved(link, nodeMap) ==
  [isNull |-> FALSE, source |-> link.source, target |-> link.target]

\* Lines 170-186: the link with its ends replaced by the nodes of nodeMap,
\* or null when one of them is not there.
MappedLink(link, nodeMap) ==
  LET sourceId == EndId(link.source)
      targetId == EndId(link.target)
  IN  IF sourceId \notin DOMAIN nodeMap \/ targetId \notin DOMAIN nodeMap
      THEN [isNull |-> TRUE]
      ELSE [isNull |-> FALSE, source |-> nodeMap[sourceId],
            target |-> nodeMap[targetId]]

\* Lines 169-187: map, then filter out the nulls.
SimulationLinks(links, nodeMap) ==
  SelectSeq([i \in 1..Len(links) |-> MappedLink(links[i], nodeMap)],
            LAMBDA l : ~l.isNull)

\* Lines 147-199: the simulation effect for the props nodes and links.  It
\* returns at once when there is no node.
Simulation(nodes, links) ==
  IF Len(nodes) = 0
  THEN [pc |-> "empty", nodes |-> nodes, links |-> links]
  ELSE [pc |-> "simulated", nodes |-> nodes, links |-> links,
        simulationNodes |-> nodes,
        simulationLinks |-> SimulationLinks(links, NodeMap(nodes))]

PropNodes == {[id |-> c] : c \in Characters}
PropEnds == {StringEnd(c) : c \in Characters} \cup {NodeEnd(n) : n \in PropNodes}
PropLinks == [source : PropEnds, target : PropEnds]

\* Either Home holds character data and NetworkGraph is not mounted with
\* it yet, or NetworkGraph is mounted with props of its own.
GraphInit ==
  /\ HandlerInit
  /\ seg = [pc |-> "off"]
  /\ fold = [pc |-> "off"]
  /\ book = [pc |-> "off"]
  /\ home = [pc |-> "off"]
  /\ \/ /\ net = [pc |-> "unmounted"]
        /\ \E characterData \in UtilData, order \in KeyOrders :
             util = [pc |-> "ready", characterData |-> characterData,
                     order |-> order, characterName |-> "", connections |-> << >>,
                     graphData |-> [nodes |-> << >>, links |-> << >>]]
     \/ /\ util = [pc |-> "off"]
        /\ \E nodes \in BoundedSeqs(PropNodes, MaxPropNodes),
              links \in BoundedSeqs(PropLinks, MaxPropLinks) :
             net = [pc |-> "props", nodes |-> nodes, links |-> links]

\* Home renders NetworkGraph with graphData.nodes and graphData.links.
RenderGraphData ==
  /\ util.pc = "graph"
  /\ net.pc = "unmounted"
  /\ net' = Simulation(util.graphData.nodes,
                       [i \in 1..Len(util.graphData.links) |->
                          [source |-> StringEnd(util.graphData.links[i].source),
                           target |-> StringEnd(util.graphData.links[i].target)]])
  /\ UNCHANGED << handlerVars, seg, fold, util, book, home >>

\* NetworkGraph rendered with the props it was mounted with.
RenderProps ==
  /\ net.pc = "props"
  /\ net' = Simulation(net.nodes, net.links)
  /\ UNCHANGED << handlerVars, seg, fold, util, book, home >>

GraphNext ==
  \/ /\ net.pc = "unmounted"
     /\ UtilNext
  \/ RenderGraphData
  \/ RenderProps

GraphSpec == GraphInit /\ [][GraphNext]_vars

\* ------------------------- api/books/[id]/route.ts and its title/route.ts
\* Both routes keep CACHE_TTL = 60 * 60 * 24 seconds, scaled to 2 ticks.
BOOK_CACHE_TTL == 2
TITLE_CACHE_TTL == 2

BookRequests == {1, 2}
BookIds == {"", "11", "84"}
Bodies == {"", "a", "b"}
NotOkStatuses == {404, 503}

\* cacheKey = `book:${bookId}` and `book:${bookId}:title`
BookKey(bookId) == << "book:", bookId >>
TitleKey(bookId) == << "book:", bookId, ":title" >>
BookKeys == {BookKey(i) : i \in BookIds} \cup {TitleKey(i) : i \in BookIds}

\* What a fetch can come to: a response, or a rejection (of the fetch or of
\* the reading of its body).
Answer(status, body) == [kind |-> "response", status |-> status, body |-> body]
FetchThrows == [kind |-> "throws"]
NoAnswer == [kind |-> "none"]
TextAnswers ==
  {Answer(200, b) : b \in Bodies} \cup {Answer(st, "") : st \in NotOkStatuses}
    \cup {FetchThrows}

\* The metadata object that metadataResponse.json() gives, with a title or
\* without one (gutendex answers { detail: "Not found." } for an unknown id).
Metadata(title) == [kind |-> "metadata", hasTitle |-> TRUE, title |-> title]
NoTitle == [kind |-> "metadata", hasTitle |-> FALSE]
MetadataResults == {Metadata(t) : t \in {"", "a"}} \cup {NoTitle, FetchThrows}

\* response.ok
Ok(a) == a.status \in 200..299

\* if (cachedText): null and the empty string are both falsy.
Truthy(cached) == cached.present /\ cached.value # ""

TextResponse(text) == [status |-> 200, body |-> text]
TitleResponse(title) == [status |-> 200, title |-> title]

IdleRequest ==
  [pc |-> "idle", route |-> "", bookId |-> "", cached |-> NotRead,
   primary |-> NoAnswer, alternative |-> NoAnswer, text |-> "",
   response |-> NoResponse, fetches |-> 0, lookupAt |-> -1, wroteAt |-> -1,
   doneBefore |-> {}]

BookInit ==
  /\ HandlerInit
  /\ seg = [pc |-> "off"]
  /\ fold = [pc |-> "off"]
  /\ util = [pc |-> "off"]
  /\ home = [pc |-> "off"]
  /\ net = [pc |-> "off"]
  /\ book = [pc |-> "on", now |-> 0,
             store |-> [k \in BookKeys |-> Absent],
             req |-> [r \in BookRequests |-> IdleRequest]]

\* The key is looked up under the other book id.
BookLookupOtherId(key) == Absent

\* redis.get: an entry past its expiry reads as null.
BookLookup(key) ==
  IF book.store[key].present /\ book.now < book.store[key].expires
  THEN book.store[key] ELSE Absent

Finished(q, resp) == [q EXCEPT !.pc = "done", !.response = resp]

\* Lines 82-93 of either route: read the id, reject a missing one, else
\* issue redis.get.
Started(route, bookId) ==
  LET q == [IdleRequest EXCEPT
              !.route = route, !.bookId = bookId,
              !.doneBefore = {p \in BookRequests : book.req[p].pc = "done"}]
  IN  IF bookId = "" THEN Finished(q, ErrorResponse(400))
      ELSE [q EXCEPT !.pc = "lookup"]

\* redis.set has answered: the entry is in the store, the handler returns.
Stored(r, key, ttl, resp) ==
  [book EXCEPT
     !.store[key] = [present |-> TRUE, value |-> book.req[r].text,
                     expires |-> book.now + ttl],
     !.req[r] = Finished([@ EXCEPT !.wroteAt = book.now], resp)]

BookUnchanged == UNCHANGED << handlerVars, seg, fold, util, home, net >>

\* books/[id]/route.ts lines 82-93.
BookGet(r, bookId) ==
  /\ book.pc = "on"
  /\ book.req[r].pc = "idle"
  /\ book' = [book EXCEPT !.req[r] = Started("text", bookId)]
  /\ BookUnchanged

\* Lines 93-109: redis.get has answered; a truthy text is returned, else
\* the primary URL is fetched.
BookCacheGet(r) ==
  /\ book.pc = "on"
  /\ book.req[r].pc = "lookup"
  /\ book.req[r].route = "text"
  /\ LET cachedText == BookLookup(BookKey(book.req[r].bookId))
         q == [book.req[r] EXCEPT !.cached = cachedText, !.lookupAt = book.now]
     IN  book' = [book EXCEPT !.req[r] =
                    IF Truthy(cachedText)
                    THEN Finished(q, TextResponse(cachedText.value))
                    ELSE [q EXCEPT !.pc = "primary", !.fetches = @ + 1]]
  /\ BookUnchanged

\* Line 93 throws: caught at line 149.
BookCacheGetFails(r) ==
  /\ book.pc = "on"
  /\ book.req[r].pc = "lookup"
  /\ book.req[r].route = "text"
  /\ book' = [book EXCEPT !.req[r] =
                Finished([@ EXCEPT !.cached = Threw, !.lookupAt = book.now],
                         ErrorResponse(500))]
  /\ BookUnchanged

\* Lines 109-116 and 138-141: the primary fetch has settled.  Not ok: fetch
\* the alternative URL.  Ok: read the text and issue redis.set.
PrimaryAnswers(r, a) ==
  /\ book.pc = "on"
  /\ book.req[r].pc = "primary"
  /\ LET q == [book.req[r] EXCEPT !.primary = a]
     IN  book' = [book EXCEPT !.req[r] =
                    IF a = FetchThrows THEN Finished(q, ErrorResponse(500))
                    ELSE IF ~Ok(a)
                         THEN [q EXCEPT !.pc = "alternative", !.fetches = @ + 1]
                         ELSE [q EXCEPT !.pc = "caching", !.text = a.body]]
  /\ BookUnchanged

\* The error response carries the status of the primary response.
AlternativeAnswersPrimaryStatus(r, a) ==
  /\ book.pc = "on"
  /\ book.req[r].pc = "alternative"
  /\ LET q == [book.req[r] EXCEPT !.alternative = a]
     IN  book' = [book EXCEPT !.req[r] =
                    IF a = FetchThrows THEN Finished(q, ErrorResponse(500))
                    ELSE IF ~Ok(a)
                         THEN Finished(q, ErrorResponse(q.primary.status))
                         ELSE [q EXCEPT !.pc = "caching", !.text = a.body]]
  /\ BookUnchanged

\* Lines 116-128: the alternative fetch has settled.  Not ok: answer with
\* its status.  Ok: read the text and issue redis.set.
AlternativeAnswers(r, a) ==
  /\ book.pc = "on"
  /\ book.req[r].pc = "alternative"
  /\ LET q == [book.req[r] EXCEPT !.alternative = a]
     IN  book' = [book EXCEPT !.req[r] =
                    IF a = FetchThrows THEN Finished(q, ErrorResponse(500))
                    ELSE IF ~Ok(a)
                         THEN Finished(q, ErrorResponse(a.status))
                         ELSE [q EXCEPT !.pc = "caching", !.text = a.body]]
  /\ BookUnchanged

\* Lines 128-135 and 141-148: redis.set has answered; return the text.
BookCacheSet(r) ==
  /\ book.pc = "on"
  /\ book.req[r].pc = "caching"
  /\ book.req[r].route = "text"
  /\ book' = Stored(r, BookKey(book.req[r].bookId), BOOK_CACHE_TTL,
                    TextResponse(book.req[r].text))
  /\ BookUnchanged

\* Line 128 or 141 throws: caught at line 149.
BookCacheSetFails(r) ==
  /\ book.pc = "on"
  /\ book.req[r].pc = "caching"
  /\ book.req[r].route = "text"
  /\ book' = [book EXCEPT !.req[r] = Finished(@, ErrorResponse(500))]
  /\ BookUnchanged

\* title/route.ts lines 16-25.
TitleGet(r, bookId) ==
  /\ book.pc = "on"
  /\ book.req[r].pc = "idle"
  /\ book' = [book EXCEPT !.req[r] = Started("title", bookId)]
  /\ BookUnchanged

\* Lines 25-38: redis.get has answered; a truthy title is returned, else
\* the metadata is fetched.
TitleCacheGet(r) ==
  /\ book.pc = "on"
  /\ book.req[r].pc = "lookup"
  /\ book.req[r].route = "title"
  /\ LET cachedTitle == BookLookup(TitleKey(book.req[r].bookId))
         q == [book.req[r] EXCEPT !.cached = cachedTitle, !.lookupAt = book.now]
     IN  book' = [book EXCEPT !.req[r] =
                    IF Truthy(cachedTitle)
                    THEN Finished(q, TitleResponse(cachedTitle.value))
                    ELSE [q EXCEPT !.pc = "metadata", !.fetches = @ + 1]]
  /\ BookUnchanged

\* Line 25 throws: caught at line 56.
TitleCacheGetFails(r) ==
  /\ book.pc = "on"
  /\ book.req[r].pc = "lookup"
  /\ book.req[r].route = "title"
  /\ book' = [book EXCEPT !.req[r] =
                Finished([@ EXCEPT !.cached = Threw, !.lookupAt = book.now],
                         ErrorResponse(500))]
  /\ BookUnchanged

\* The title is stored before it is looked at.
MetadataAnswersStoresFirst(r, m) ==
  /\ book.pc = "on"
  /\ book.req[r].pc = "metadata"
  /\ LET q == [book.req[r] EXCEPT !.primary = m]
     IN  book' =
           IF m = FetchThrows
           THEN [book EXCEPT !.req[r] = Finished(q, ErrorResponse(500))]
           ELSE IF ~m.hasTitle \/ m.title = ""
                THEN [book EXCEPT
                        !.store[TitleKey(q.bookId)] =
                           [present |-> TRUE, value |-> "",
                            expires |-> book.now + TITLE_CACHE_TTL],
                        !.req[r] = Finished(q, ErrorResponse(404))]
                ELSE [book EXCEPT !.req[r] =
                        [q EXCEPT !.pc = "caching", !.text = m.title]]
  /\ BookUnchanged

\* Lines 38-50: the metadata fetch and its json() have settled.  No title:
\* 404.  Else issue redis.set.
MetadataAnswers(r, m) ==
  /\ book.pc = "on"
  /\ book.req[r].pc = "metadata"
  /\ LET q == [book.req[r] EXCEPT !.primary = m]
     IN  book' = [book EXCEPT !.req[r] =
                    IF m = FetchThrows THEN Finished(q, ErrorResponse(500))
                    ELSE IF ~m.hasTitle \/ m.title = ""
                         THEN Finished(q, ErrorResponse(404))
                         ELSE [q EXCEPT !.pc = "caching", !.text = m.title]]
  /\ BookUnchanged

\* Lines 50-55: redis.set has answered; return the title.
TitleCacheSet(r) ==
  /\ book.pc = "on"
  /\ book.req[r].pc = "caching"
  /\ book.req[r].route = "title"
  /\ book' = Stored(r, TitleKey(book.req[r].bookId), TITLE_CACHE_TTL,
                    TitleResponse(book.req[r].text))
  /\ BookUnchanged

\* Line 50 throws: caught at line 56.
TitleCacheSetFails(r) ==
  /\ book.pc = "on"
  /\ book.req[r].pc = "caching"
  /\ book.req[r].route = "title"
  /\ book' = [book EXCEPT !.req[r] = Finished(@, ErrorResponse(500))]
  /\ BookUnchanged

BookTick ==
  /\ book.pc = "on"
  /\ book.now < MaxTime
  /\ book' = [book EXCEPT !.now = @ + 1]
  /\ BookUnchanged

BookNext ==
  \/ \E r \in BookRequests, bookId \in BookIds : BookGet(r, bookId)
  \/ \E r \in BookRequests : BookCacheGet(r)
  \/ \E r \in BookRequests : BookCacheGetFails(r)
  \/ \E r \in BookRequests, a \in TextAnswers : PrimaryAnswers(r, a)
  \/ \E r \in BookRequests, a \in TextAnswers : AlternativeAnswers(r, a)
  \/ \E r \in BookRequests : BookCacheSet(r)
  \/ \E r \in BookRequests : BookCacheSetFails(r)
  \/ \E r \in BookRequests, bookId \in BookIds : TitleGet(r, bookId)
  \/ \E r \in BookRequests : TitleCacheGet(r)
  \/ \E r \in BookRequests : TitleCacheGetFails(r)
  \/ \E r \in BookRequests, m \in MetadataResults : MetadataAnswers(r, m)
  \/ \E r \in BookRequests : TitleCacheSet(r)
  \/ \E r \in BookRequests : TitleCacheSetFails(r)
  \/ BookTick

BookSpec == BookInit /\ [][BookNext]_vars

\* ------------------------------------------------ page.tsx, handleSubmit
\* setTimeout(..., 2000): two ticks of the page's clock.
TIMER_DELAY == 2
MaxSubmits == 2

\* Book ids as the user types them: character codes, 32 the space.
HomeIds == { << >>, << 32 >>, << 49 >>, << 49, 32 >> }

RECURSIVE TrimStart(_)
TrimStart(str) ==
  IF Len(str) > 0 /\ Head(str) = 32 THEN TrimStart(Tail(str)) ELSE str

RECURSIVE TrimEnd(_)
TrimEnd(str) ==
  IF Len(str) > 0 /\ str[Len(str)] = 32
  THEN TrimEnd(SubSeq(str, 1, Len(str) - 1)) ELSE str

\* String.prototype.trim
Trim(str) == TrimEnd(TrimStart(str))

\* What the page's awaits can come to.
HomeResponse(ok) == [kind |-> "response", ok |-> ok]
HomeFetches == {HomeResponse(TRUE), HomeResponse(FALSE), FetchThrows}
HomeTexts == {[kind |-> "text", text |-> b] : b \in {"", "a"}} \cup {FetchThrows}
HomeMetadata == {Metadata("a"), NoTitle, FetchThrows}
HomeGraphs == {EmptyGraph, Edge("Alice", "Bob", 2)}
HomeData == {Json(g) : g \in HomeGraphs} \cup {FetchThrows}

\* The key order of the interactions object the page receives.
HomeOrder == << "Alice", "Bob", "Carol" >>

Progress(percentage) == [isNull |-> FALSE, percentage |-> percentage]

HomeInit ==
  /\ HandlerInit
  /\ seg = [pc |-> "off"]
  /\ fold = [pc |-> "off"]
  /\ util = [pc |-> "off"]
  /\ book = [pc |-> "off"]
  /\ net = [pc |-> "off"]
  /\ home = [pc |-> "idle", now |-> 0, bookId |-> << >>, loading |-> FALSE,
             error |-> "", characterData |-> Null,
             graphData |-> [nodes |-> << >>, links |-> << >>],
             progress |-> Null, graphTitle |-> "Character Network",
             bookText |-> "", timers |-> {}, submits |-> 0, fetches |-> 0]

HomeUnchanged == UNCHANGED << handlerVars, seg, fold, util, book, net >>

\* The finally block is skipped: loading stays true.
FinallyKeepsLoading(h) ==
  [h EXCEPT !.pc = "idle", !.timers = @ \cup {h.now + TIMER_DELAY}]

\* Lines 302-306: setLoading(false) and the timer that clears progress.
Finally(h) ==
  [h EXCEPT !.pc = "idle", !.loading = FALSE,
            !.timers = @ \cup {h.now + TIMER_DELAY}]

\* Lines 300-302: the catch block, then the finally block.
Caught(h, message) == Finally([h EXCEPT !.error = message])

\* Lines 255-271: the form is submitted with bookId in the input (input
\* and button are disabled while loading).  A blank id sets the error;
\* else the state is reset and the book text is fetched.
HandleSubmit(bookId) ==
  /\ home.pc = "idle"
  /\ ~home.loading
  /\ home.submits < MaxSubmits
  /\ home' =
       IF Trim(bookId) = << >>
       THEN [home EXCEPT !.bookId = bookId, !.submits = @ + 1,
                         !.error = "Please enter a book ID"]
       ELSE [home EXCEPT !.bookId = bookId, !.submits = @ + 1,
                         !.loading = TRUE, !.error = "",
                         !.characterData = Null, !.progress = Progress(20),
                         !.pc = "bookFetch", !.fetches = @ + 1]
  /\ HomeUnchanged

\* Lines 271-277: the book fetch has settled.
BookFetchSettles(o) ==
  /\ home.pc = "bookFetch"
  /\ home' = IF o = FetchThrows THEN Caught(home, "fetch failed")
             ELSE IF ~o.ok THEN Caught(home, "Failed to fetch book")
             ELSE [home EXCEPT !.pc = "bookText"]
  /\ HomeUnchanged

\* Lines 277-279: the body is read; fetch the title.
BookTextSettles(o) ==
  /\ home.pc = "bookText"
  /\ home' = IF o = FetchThrows THEN Caught(home, "body failed")
             ELSE [home EXCEPT !.bookText = o.text, !.pc = "titleFetch",
                               !.fetches = @ + 1]
  /\ HomeUnchanged

\* Lines 279-280: the title fetch has settled.
TitleFetchSettles(o) ==
  /\ home.pc = "titleFetch"
  /\ home' = IF o = FetchThrows THEN Caught(home, "fetch failed")
             ELSE [home EXCEPT !.pc = "titleJson"]
  /\ HomeUnchanged

\* Lines 280-286: the title is read into the graph title (a missing title
\* reads "undefined"); post the text to the analysis route.
TitleJsonSettles(m) ==
  /\ home.pc = "titleJson"
  /\ home' = IF m = FetchThrows THEN Caught(home, "json failed")
             ELSE [home EXCEPT
                     !.graphTitle = (IF m.hasTitle THEN m.title ELSE "undefined")
                                      \o " Character Network",
                     !.progress = Progress(40),
                     !.pc = "analysisFetch", !.fetches = @ + 1]
  /\ HomeUnchanged

\* Lines 286-296: the analysis request has settled.
AnalysisFetchSettles(o) ==
  /\ home.pc = "analysisFetch"
  /\ home' = IF o = FetchThrows THEN Caught(home, "fetch failed")
             ELSE IF ~o.ok THEN Caught(home, "Failed to analyze text")
             ELSE [home EXCEPT !.progress = Progress(80), !.pc = "analysisJson"]
  /\ HomeUnchanged

\* Lines 296-306: the result is read and shown.
AnalysisJsonSettles(o) ==
  /\ home.pc = "analysisJson"
  /\ home' = IF o = FetchThrows THEN Caught(home, "json failed")
             ELSE Finally([home EXCEPT
                     !.characterData = Data(o.value),
                     !.graphData = transformCharacterData(Data(o.value), HomeOrder),
                     !.progress = Progress(100)])
  /\ HomeUnchanged

\* Line 305: a timer is due and runs setProgress(null).
TimerFires(due) ==
  /\ home.pc # "off"
  /\ due \in home.timers
  /\ due <= home.now
  /\ home' = [home EXCEPT !.progress = Null, !.timers = @ \ {due}]
  /\ HomeUnchanged

HomeTick ==
  /\ home.pc # "off"
  /\ home.now < MaxTime
  /\ home' = [home EXCEPT !.now = @ + 1]
  /\ HomeUnchanged

\* An awaited promise of the running submission settles.
HomeSettles ==
  \/ \E o \in HomeFetches : BookFetchSettles(o)
  \/ \E o \in HomeTexts : BookTextSettles(o)
  \/ \E o \in HomeFetches : TitleFetchSettles(o)
  \/ \E m \in HomeMetadata : TitleJsonSettles(m)
  \/ \E o \in HomeFetches : AnalysisFetchSettles(o)
  \/ \E o \in HomeData : AnalysisJsonSettles(o)

HomeNext ==
  \/ \E bookId \in HomeIds : HandleSubmit(bookId)
  \/ HomeSettles
  \/ \E due \in 0..(MaxTime + TIMER_DELAY) : TimerFires(due)
  \/ HomeTick

HomeSpec == HomeInit /\ [][HomeNext]_vars

\* Every fetch and every reading of a body comes to an end.
HomeLiveSpec == HomeSpec /\ WF_vars(HomeSettles)

\* ------------------------------------------------- the three routes
\* Either the analysis route is serving, or the two book routes are.
RoutesInit == Init \/ BookInit

RoutesNext ==
  \/ /\ book.pc = "off"
     /\ Next
  \/ BookNext

RoutesSpec == RoutesInit /\ [][RoutesNext]_vars

\* ================================================================ claims
RECURSIVE Concat(_)
Concat(ss) == IF Len(ss) = 0 THEN << >> ELSE Head(ss) \o Concat(Tail(ss))

HasPair(g, a, b) == a \in Keys(g) /\ b \in Keys(g[a])

\* A folded (not skipped) partial reports the pair a -> b.
Reports(res, a, b) == ~Skipped(res) /\ HasPair(res.value, a, b)

RECURSIVE SumCounts(_, _, _, _)
SumCounts(partials, n, a, b) ==
  IF n = 0 THEN 0
  ELSE SumCounts(partials, n - 1, a, b)
       + (IF Reports(partials[n], a, b)
          THEN partials[n].value[a][b].interactions ELSE 0)

IsIdentity(perm) == \A i \in DOMAIN perm : perm[i] = i

\* C1 -- Merge commutativity: folding a collection of partial results in
\* its given order and in any permuted order yields the same graph (same
\* outer keys, same inner keys, same counts).
C1_MergeCommutative ==
  fold.pc = "done" => fold.merged = fold.mergedPerm

\* C1 witness: a finished fold of two different partials that both report
\* Alice -> Bob, taken in swapped order.
C1_Witness ==
  /\ fold.pc = "done"
  /\ Len(fold.partials) >= 2
  /\ ~IsIdentity(fold.perm)
  /\ fold.partials[1] # fold.partials[2]
  /\ Reports(fold.partials[1], "Alice", "Bob")
  /\ Reports(fold.partials[2], "Alice", "Bob")
  /\ fold.partials[1].value["Alice"]["Bob"] # fold.partials[2].value["Alice"]["Bob"]

\* C2 -- Merge additivity and exact edge set: after any number of folded
\* partials the graph holds A -> B exactly when one of them reports A -> B,
\* and with the sum of the reported counts; no other edge (in particular
\* no reverse edge) and no other character appears.
C2_MergeAdditive ==
  fold.pc # "off" =>
    /\ Keys(fold.merged) \subseteq Characters
    /\ \A a \in Keys(fold.merged) : Keys(fold.merged[a]) \subseteq Characters
    /\ \A a, b \in Characters :
         /\ HasPair(fold.merged, a, b)
              <=> \E i \in 1..fold.idx : Reports(fold.partials[i], a, b)
         /\ HasPair(fold.merged, a, b)
              => fold.merged[a][b].interactions
                   = SumCounts(fold.partials, fold.idx, a, b)

\* C2 witness: two partials report Alice -> Bob with k1 and k2, none
\* reports Bob -> Alice; the merge holds k1 + k2 and no reverse edge.
C2_Witness ==
  /\ fold.pc = "done"
  /\ Len(fold.partials) = 2
  /\ Reports(fold.partials[1], "Alice", "Bob")
  /\ Reports(fold.partials[2], "Alice", "Bob")
  /\ ~Reports(fold.partials[1], "Bob", "Alice")
  /\ ~Reports(fold.partials[2], "Bob", "Alice")
  /\ fold.merged["Alice"]["Bob"].interactions = 4
  /\ ~HasPair(fold.merged, "Bob", "Alice")

\* C3 -- Segmenter coverage: the chunks, concatenated in order, are exactly
\* the first min(length, maxInputLength) characters of the input.
C3_SegmenterCoverage ==
  seg.pc = "done" =>
    LET out == Concat(seg.chunks)
        n == IF Len(seg.text) < seg.maxInputLength
             THEN Len(seg.text) ELSE seg.maxInputLength
    IN  /\ Len(out) = n
        /\ \A k \in 1..n : out[k] = seg.text[k]

\* C3 witness: a text longer than the limit, split into several chunks the
\* last of which is shorter than the chunk size.
C3_Witness ==
  /\ seg.pc = "done"
  /\ Len(seg.text) > seg.maxInputLength
  /\ Len(seg.chunks) >= 2
  /\ Len(seg.chunks[Len(seg.chunks)]) < seg.size

Settled(r) ==
  /\ Len(chunkResults[r]) >= 1
  /\ \A i \in 1..Len(chunkResults[r]) : chunkResults[r][i] # Pending

ValidPartial(res) == res.kind = "json" /\ SchemaValid(res.value)

\* The chunk results of r with every result that is not a valid partial
\* replaced by a skipped one.
ValidOnly(r) ==
  [i \in 1..Len(chunkResults[r]) |->
     IF ValidPartial(chunkResults[r][i]) THEN chunkResults[r][i] ELSE EmptyContent]

\* C4 -- Cache idempotence: r1 extracted and wrote the entry, r2 carries the
\* same text, began after r1 had returned and read the cache (without a
\* read failure) before that entry expired, and nobody else wrote the key;
\* then r2 issues no completion call, extraction happened once per chunk
\* of r1 only, and r2 returns what r1 returned.
C4_CacheIdempotence ==
  \A r1, r2 \in Requests :
    ( /\ r1 # r2
      /\ bookText[r1] = bookText[r2]
      /\ wroteAt[r1] >= 0
      /\ r1 \in doneBefore[r2]
      /\ lookupAt[r2] >= 0
      /\ lookupAt[r2] < wroteAt[r1] + CACHE_TTL
      /\ cachedResult[r2] # Threw
      /\ \A r3 \in Requests \ {r1, r2} : wroteAt[r3] = -1
      /\ pc[r2] = "done" )
    => /\ calls[r2] = 0
       /\ calls[r1] + calls[r2] = Len(chunks[r1])
       /\ response[r2] = response[r1]
       /\ response[r2].status = 200

\* C4 witness: the second of two sequential calls with the same two-chunk
\* text has returned from the cache.
C4_Witness ==
  /\ bookText[1] = <<97, 98, 97>>
  /\ bookText[2] = <<97, 98, 97>>
  /\ wroteAt[1] >= 0
  /\ 1 \in doneBefore[2]
  /\ lookupAt[2] >= 0
  /\ lookupAt[2] < wroteAt[1] + CACHE_TTL
  /\ cachedResult[2] # Threw
  /\ pc[2] = "done"
  /\ calls[1] = 2

\* C5 -- All-failure reporting: a request whose every chunk failed
\* (rejected call, empty content, unparsable content) ends with an error
\* response, never with a success.
C5_AllFailureReporting ==
  \A r \in Requests :
    ( /\ pc[r] = "done"
      /\ Settled(r)
      /\ \A i \in 1..Len(chunkResults[r]) :
           chunkResults[r][i] \in {Rejected, EmptyContent, Unparsable} )
    => response[r].status = 500

\* C6 -- Invalid-response isolation: one chunk's content cannot be parsed,
\* another chunk yields a valid partial, no call was rejected; the request
\* returns a success carrying the merge of exactly the valid partials.
C6_InvalidResponseIsolation ==
  \A r \in Requests :
    ( /\ pc[r] = "done"
      /\ Settled(r)
      /\ \E i \in 1..Len(chunkResults[r]) : chunkResults[r][i] = Unparsable
      /\ \E i \in 1..Len(chunkResults[r]) : ValidPartial(chunkResults[r][i])
      /\ \A i \in 1..Len(chunkResults[r]) :
           chunkResults[r][i] = Unparsable \/ ValidPartial(chunkResults[r][i]) )
    => response[r] =
         JsonResponse([interactions |-> MergeAll(EmptyGraph, ValidOnly(r))])

\* C7 -- Call-failure isolation: one chunk's call was rejected, another
\* chunk yielded a valid partial; the request returns a success (the merge
\* of the successful chunks), not a pipeline-level error.
C7_CallFailureIsolation ==
  \A r \in Requests :
    ( /\ pc[r] = "done"
      /\ \E i \in 1..Len(chunkResults[r]) : chunkResults[r][i] = Rejected
      /\ \E i \in 1..Len(chunkResults[r]) : ValidPartial(chunkResults[r][i]) )
    => response[r].status = 200

\* C8 -- Positive-count invariant: every count of every graph returned or
\* stored in the cache is >= 1.
C8_PositiveCounts ==
  /\ \A r \in Requests :
       response[r].status = 200 => SchemaValid(response[r].body.interactions)
  /\ \A k \in CacheKeys :
       redis[k].present => SchemaValid(redis[k].value.interactions)

\* C9 -- All-or-nothing schema rejection: a chunk whose response has a
\* schema-violating entry contributes none of its entries; the graph a
\* request builds is the merge of its schema-valid partials only.
C9_AllOrNothingRejection ==
  \A r \in Requests :
    result[r].built =>
      result[r].value.interactions = MergeAll(EmptyGraph, ValidOnly(r))

\* C10 -- Best-effort cache write: once the graph is aggregated the request
\* returns it as a success, whatever the cache write does.
C10_BestEffortCacheWrite ==
  \A r \in Requests :
    (pc[r] = "done" /\ result[r].built)
    => response[r] = JsonResponse(result[r].value)

\* C11 -- Cache read failure is a miss: a request whose redis.get failed
\* goes on as on a miss (its chunks are extracted) instead of ending there.
C11_CacheReadFailureIsMiss ==
  \A r \in Requests :
    (pc[r] = "done" /\ cachedResult[r] = Threw) => calls[r] >= 1

\* C12 -- Input rejection: a request with an empty body is answered 400 at
\* once: no cache read, no chunks, no completion call, no cache write.
C12_InputRejection ==
  \A r \in Requests :
    (pc[r] # "idle" /\ bookText[r] = << >>)
    => /\ pc[r] = "done"
       /\ response[r] = ErrorResponse(400)
       /\ cachedResult[r] = NotRead
       /\ lookupAt[r] = -1
       /\ chunks[r] = << >>
       /\ chunkResults[r] = << >>
       /\ calls[r] = 0
       /\ ~result[r].built
       /\ wroteAt[r] = -1

\* C12 witness: an empty request was rejected while the cache holds the
\* entry another request wrote.
C12_Witness ==
  /\ pc[2] = "done"
  /\ bookText[2] = << >>
  /\ response[2].status = 400
  /\ wroteAt[1] >= 0
  /\ \E k \in CacheKeys : redis[k].present

IsHit(r) == cachedResult[r] \notin {NotRead, Threw, Absent}

\* Phase changes of one request: Idle -> CacheLookup -> Done on a hit,
\* CacheLookup -> Segmenting/Extracting -> Aggregating/Caching -> Done on a
\* miss, and the exits to Done that carry an error response.
PhaseOrder ==
  { <<"idle", "lookup">>, <<"idle", "done">>, <<"lookup", "done">>,
    <<"lookup", "extracting">>, <<"extracting", "caching">>,
    <<"extracting", "done">>, <<"caching", "done">> }

PhaseStep(r) ==
  /\ pc'[r] # pc[r] => <<pc[r], pc'[r]>> \in PhaseOrder
  /\ (pc[r] = "idle" /\ pc'[r] = "done") => response'[r].status = 400
  /\ (pc[r] = "extracting" /\ pc'[r] = "done") => response'[r].status = 500
  /\ (pc[r] = "lookup" /\ pc'[r] = "done" /\ response'[r].status = 200)
       => cachedResult'[r].present

\* A change of the store is the write of a request that has aggregated and
\* has not yet returned; it returns its result in that step.
WriteStep ==
  redis' # redis =>
    \E r \in Requests :
      /\ pc[r] = "caching"
      /\ result[r].built
      /\ response[r] = NoResponse
      /\ pc'[r] = "done"
      /\ response'[r] = JsonResponse(result[r].value)
      /\ \A k \in CacheKeys \ {CacheKey(bookText[r])} : redis'[k] = redis[k]

PhaseState(r) ==
  /\ IsHit(r) =>
       /\ chunks[r] = << >>
       /\ calls[r] = 0
       /\ ~result[r].built
       /\ wroteAt[r] = -1
       /\ pc[r] = "done"
  /\ (response[r].status = 200 /\ ~IsHit(r)) =>
       /\ cachedResult[r] = Absent
       /\ Len(chunks[r]) >= 1
       /\ \A i \in 1..Len(chunkResults[r]) : chunkResults[r][i] # Pending
       /\ result[r].built
       /\ wroteAt[r] >= 0

\* C13 -- Orchestrator ordering: a request moves through the phases only in
\* the order Idle, CacheLookup, then Done (hit) or Segmenting, Extracting,
\* Aggregating, Caching, Done (miss); a hit does no chunking, completion
\* call or cache write; the cache write comes after the aggregation and
\* before the return, and a success on a miss has been through all phases.
C13_OrchestratorOrdering ==
  /\ [](\A r \in Requests : PhaseState(r))
  /\ [][WriteStep /\ \A r \in Requests : PhaseStep(r)]_vars

\* C13 witness: one request has returned after a miss and its cache write,
\* the other has returned from the cache.
C13_Witness ==
  /\ pc[1] = "done"
  /\ response[1].status = 200
  /\ wroteAt[1] >= 0
  /\ pc[2] = "done"
  /\ IsHit(2)
  /\ response[2].status = 200

NoneInFlight(r) ==
  \A i \in 1..Len(chunkResults[r]) : chunkResults[r][i] # Pending

\* While extracting, one call per chunk has been launched, all in one go.
Launched(r) ==
  pc[r] = "extracting" =>
    /\ Len(chunks[r]) >= 1
    /\ calls[r] = Len(chunks[r])
    /\ Len(chunkResults[r]) = Len(chunks[r])

\* A step that leaves the extracting phase without settling a call is the
\* start of the aggregation.
AggregationStarts(r) ==
  /\ pc[r] = "extracting"
  /\ pc'[r] # "extracting"
  /\ chunkResults'[r] = chunkResults[r]

\* C14 -- Join before aggregation: one completion call per chunk is
\* launched, all together, and the aggregation starts (and a result is
\* built) only when no launched call is still in flight.
C14_JoinBeforeAggregation ==
  /\ [](\A r \in Requests :
          /\ Launched(r)
          /\ (result[r].built \/ pc[r] = "caching") => NoneInFlight(r))
  /\ [][\A r \in Requests : AggregationStarts(r) => NoneInFlight(r)]_vars

\* C14 witness: a two-chunk request has aggregated two parsed results.
C14_Witness ==
  \E r \in Requests :
    /\ pc[r] = "caching"
    /\ Len(chunks[r]) = 2
    /\ chunkResults[r][1].kind = "json"
    /\ chunkResults[r][2].kind = "json"
    /\ chunkResults[r][1] # chunkResults[r][2]

Overlap(r1, r2) == r1 \notin doneBefore[r2] /\ r2 \notin doneBefore[r1]

\* C15 -- No single-flight, last-write-wins: when two requests for the same
\* key have both extracted, written and returned, each has returned the
\* graph it built itself and the store holds the graph of the later write
\* (of either of them when both wrote in the same tick).
C15_LastWriteWins ==
  \A r1, r2 \in Requests :
    ( /\ r1 # r2
      /\ CacheKey(bookText[r1]) = CacheKey(bookText[r2])
      /\ pc[r1] = "done" /\ pc[r2] = "done"
      /\ wroteAt[r1] >= 0 /\ wroteAt[r2] >= 0
      /\ wroteAt[r1] <= wroteAt[r2] )
    => LET entry == redis[CacheKey(bookText[r1])]
       IN  /\ response[r1] = JsonResponse(result[r1].value)
           /\ response[r2] = JsonResponse(result[r2].value)
           /\ entry.present
           /\ entry.expires = wroteAt[r2] + CACHE_TTL
           /\ wroteAt[r1] < wroteAt[r2] => entry.value = result[r2].value
           /\ entry.value \in {result[r1].value, result[r2].value}

\* C15 witness: two overlapping requests for one key both missed, both
\* extracted every chunk, built different graphs, the second wrote over
\* the live entry of the first and its graph is the one the store holds.
C15_Witness ==
  /\ Overlap(1, 2)
  /\ CacheKey(bookText[1]) = CacheKey(bookText[2])
  /\ cachedResult[1] = Absent /\ cachedResult[2] = Absent
  /\ calls[1] = Len(chunks[1]) /\ calls[2] = Len(chunks[2])
  /\ pc[1] = "done" /\ pc[2] = "done"
  /\ wroteAt[1] >= 0 /\ wroteAt[1] < wroteAt[2]
  /\ wroteAt[2] < wroteAt[1] + CACHE_TTL
  /\ result[1].value # result[2].value
  /\ response[1].body = result[1].value
  /\ redis[CacheKey(bookText[1])].value = result[2].value

\* r2 read the cache, without a read failure, after r1 had returned and
\* while the entry r1 wrote under the same key was live.
ReadsLiveEntryOf(r2, r1) ==
  /\ r1 # r2
  /\ CacheKey(bookText[r1]) = CacheKey(bookText[r2])
  /\ wroteAt[r1] >= 0
  /\ r1 \in doneBefore[r2]
  /\ lookupAt[r2] >= 0
  /\ lookupAt[r2] < wroteAt[r1] + CACHE_TTL
  /\ cachedResult[r2] # Threw

\* C16 -- Absent versus empty: a live entry that holds the empty graph is a
\* hit (the empty graph is returned, no completion call is made); a lookup
\* misses only when no live entry is there.
C16_EmptyEntryIsHit ==
  \A r1, r2 \in Requests :
    /\ (ReadsLiveEntryOf(r2, r1) /\ result[r1].value.interactions = EmptyGraph)
         => /\ IsHit(r2)
            /\ calls[r2] = 0
            /\ response[r2] = JsonResponse([interactions |-> EmptyGraph])
    /\ ReadsLiveEntryOf(r2, r1) => cachedResult[r2] # Absent

\* C16 witness: the second request got the empty graph from the cache.
C16_Witness ==
  /\ ReadsLiveEntryOf(2, 1)
  /\ redis[CacheKey(bookText[2])].value.interactions = EmptyGraph
  /\ pc[2] = "done"
  /\ response[2].status = 200
  /\ response[2].body.interactions = EmptyGraph

AllSkipped(r) ==
  \A i \in 1..Len(chunkResults[r]) : Skipped(chunkResults[r][i])

\* C17 -- Aggregator on empty input: the merge of no partials, or of chunk
\* results that were all skipped, is the empty graph, built as a value
\* (the merge does not end in the error exit).
C17_EmptyMerge ==
  /\ MergeAll(EmptyGraph, << >>) = EmptyGraph
  /\ \A r \in Requests :
       (pc[r] \in {"caching", "done"} /\ Settled(r) /\ AllSkipped(r))
       => /\ result[r].built
          /\ result[r].value = [interactions |-> EmptyGraph]

\* C17 witness: a two-chunk request whose results were both skipped has
\* built the empty graph.
C17_Witness ==
  \E r \in Requests :
    /\ pc[r] = "caching"
    /\ Len(chunkResults[r]) = 2
    /\ AllSkipped(r)
    /\ result[r].value.interactions = EmptyGraph

\* C20 -- Segment size bounds: with L the truncated length and c the chunk
\* size there are ceil(L / c) chunks, each non-empty and of at most c
\* characters, all but the last of exactly c, and chunk i (from 0) is the
\* slice [i * c, min((i + 1) * c, L)) of the text.
C20_SegmentSizes ==
  seg.pc = "done" =>
    LET L == IF Len(seg.text) < seg.maxInputLength
             THEN Len(seg.text) ELSE seg.maxInputLength
        c == seg.size
        n == Len(seg.chunks)
    IN  /\ n = (L + c - 1) \div c
        /\ \A i \in 1..n :
             LET from == (i - 1) * c
                 to == IF i * c < L THEN i * c ELSE L
             IN  /\ Len(seg.chunks[i]) = to - from
                 /\ Len(seg.chunks[i]) >= 1
                 /\ Len(seg.chunks[i]) <= c
                 /\ i < n => Len(seg.chunks[i]) = c
                 /\ \A k \in 1..(to - from) : seg.chunks[i][k] = seg.text[from + k]

\* C20 witness: three characters in chunks of two give a full chunk and a
\* shorter last one.
C20_Witness ==
  /\ seg.pc = "done"
  /\ Len(seg.text) = 3
  /\ seg.maxInputLength >= 3
  /\ seg.size = 2
  /\ Len(seg.chunks) = 2
  /\ Len(seg.chunks[1]) = 2
  /\ Len(seg.chunks[2]) = 1

Occurring(data) == Keys(data) \cup UNION {Keys(data[a]) : a \in Keys(data)}

\* C18 -- Network creation: every character that occurs in the interaction
\* graph, as a source or as a target, is a node of the result, and every
\* reported pair A -> B is a link from A to B.
C18_NetworkCreation ==
  (util.pc = "graph" /\ ~util.characterData.isNull) =>
    LET data == util.characterData.value
        nodes == util.graphData.nodes
        links == util.graphData.links
    IN  /\ \A c \in Occurring(data) : \E i \in 1..Len(nodes) : nodes[i].id = c
        /\ \A a \in Keys(data) : \A b \in Keys(data[a]) :
             \E i \in 1..Len(links) :
               /\ links[i].source = a
               /\ links[i].target = b
               /\ links[i].value = data[a][b].interactions

\* C19 -- getCharacterConnections returns the connections sorted by
\* interaction count, descending, and the empty list for null data.
C19_ConnectionsSorted ==
  util.pc = "connections" =>
    /\ \A i \in 1..(Len(util.connections) - 1) :
         util.connections[i].interactions >= util.connections[i + 1].interactions
    /\ util.characterData.isNull => util.connections = << >>

\* C19 witness: three connections, an incoming one among them, came out in
\* an order that differs from the order they were collected in.
C19_Witness ==
  /\ util.pc = "connections"
  /\ ~util.characterData.isNull
  /\ Len(util.connections) = 3
  /\ util.connections[1].interactions > util.connections[3].interactions
  /\ util.characterName \in Keys(util.characterData.value)
  /\ util.connections[1].character \notin Keys(util.characterData.value[util.characterName])

\* C21 -- Purely additive fold: a forEach iteration never removes a pair
\* from mergedInteractions and never lowers the count of a pair, whatever
\* the partials the handler folds.
C21_PurelyAdditive ==
  [][FoldStep =>
       \A a, b \in Characters :
         HasPair(fold.merged, a, b) =>
           /\ HasPair(fold'.merged, a, b)
           /\ fold'.merged[a][b].interactions >= fold.merged[a][b].interactions]_vars

\* C22 -- No retry: a request issues one extraction call per segment when
\* it misses the cache and none otherwise; calls are issued only on the
\* way from the lookup to the join, so a settled or failed segment is never
\* requested again.
C22_NoRetry ==
  /\ [](\A r \in Requests :
          calls[r] = IF cachedResult[r] = Absent THEN Len(chunks[r]) ELSE 0)
  /\ [][\A r \in Requests :
          calls'[r] # calls[r] => (pc[r] = "lookup" /\ pc'[r] = "extracting")]_vars

\* C22 witness: a request with two segments ended with 500 after one of
\* its calls failed, having issued two calls.
C22_Witness ==
  \E r \in Requests :
    /\ pc[r] = "done"
    /\ response[r].status = 500
    /\ Len(chunks[r]) = 2
    /\ \E i \in 1..2 : chunkResults[r][i] = Rejected
    /\ calls[r] = 2

\* The two texts agree on the bits that the first KEY_SLICE base64
\* characters encode (6 bits each: two bytes and the top two bits of the
\* third).
SamePrefix(t1, t2) ==
  /\ Len(t1) >= 3 /\ Len(t2) >= 3
  /\ Slice(t1, 0, 2) = Slice(t2, 0, 2)
  /\ t1[3] \div 64 = t2[3] \div 64

\* C23 -- Cache key determinism and collision: the key is a function of the
\* request text; a request whose text has the same key as an earlier
\* request's, and that reads the cache while that request's entry is live,
\* returns the earlier request's graph and issues no extraction call, also
\* when the two texts differ after the fingerprinted prefix.
C23_KeyCollision ==
  /\ \A t1, t2 \in Texts : SamePrefix(t1, t2) => CacheKey(t1) = CacheKey(t2)
  /\ \A r1, r2 \in Requests :
       (ReadsLiveEntryOf(r2, r1) /\ pc[r2] = "done")
         => /\ calls[r2] = 0
            /\ response[r2] = JsonResponse(result[r1].value)
            /\ response[r2] = response[r1]

\* C23 witness: the second request carries a text that differs from the
\* first one's in its last character and was answered from the first one's
\* entry.
C23_Witness ==
  /\ bookText[1] = <<97, 98, 97>>
  /\ bookText[2] = <<97, 98, 98>>
  /\ ReadsLiveEntryOf(2, 1)
  /\ pc[2] = "done"
  /\ response[2].status = 200
  /\ calls[2] = 0
  /\ calls[1] = 2

\* C29 -- getCharacterConnections lists no character twice; an entry for Y
\* in the connections of X carries the count of X -> Y when that pair
\* exists, and of Y -> X otherwise; X itself is listed only for a self-edge
\* X -> X, with that count.
C29_ConnectionsOnce ==
  (util.pc = "connections" /\ ~util.characterData.isNull) =>
    LET data == util.characterData.value
        X == util.characterName
        cs == util.connections
    IN  /\ \A i, j \in 1..Len(cs) : cs[i].character = cs[j].character => i = j
        /\ \A i \in 1..Len(cs) :
             LET Y == cs[i].character
             IN  IF HasPair(data, X, Y)
                 THEN cs[i].interactions = data[X][Y].interactions
                 ELSE /\ Y # X
                      /\ HasPair(data, Y, X)
                      /\ cs[i].interactions = data[Y][X].interactions

\* C29 witness: Alice -> Bob (1), Bob -> Alice (2) and Alice -> Alice exist;
\* the connections of Alice are Bob once, with 1, and Alice once.
C29_Witness ==
  /\ util.pc = "connections"
  /\ ~util.characterData.isNull
  /\ util.characterName = "Alice"
  /\ HasPair(util.characterData.value, "Alice", "Bob")
  /\ HasPair(util.characterData.value, "Bob", "Alice")
  /\ HasPair(util.characterData.value, "Alice", "Alice")
  /\ util.characterData.value["Alice"]["Bob"].interactions = 1
  /\ util.characterData.value["Bob"]["Alice"].interactions = 2
  /\ Len(util.connections) = 2
  /\ \E i \in 1..2 : util.connections[i] = [character |-> "Bob", interactions |-> 1]

\* The sum of the counts of the inner object, over the set of its keys.
RECURSIVE SumOver(_, _)
SumOver(interactions, keys) ==
  IF keys = {} THEN 0
  ELSE LET k == CHOOSE x \in keys : TRUE
       IN  interactions[k].interactions + SumOver(interactions, keys \ {k})

PrimaryIssued(q) == q.pc = "primary" \/ q.primary # NoAnswer
AlternativeIssued(q) == q.pc = "alternative" \/ q.alternative # NoAnswer

\* C24 -- Book text route fallback: a request for a book's text issues at
\* most two upstream fetches, one per URL; the alternative URL is fetched
\* only once the primary URL has answered not ok; when both answer not ok
\* the response carries the alternative response's status; a fetch that
\* throws gives 500.
C24_Fallback ==
  /\ [](book.pc = "on" =>
          \A r \in BookRequests :
            LET q == book.req[r]
            IN  q.route = "text" =>
                  /\ q.fetches <= 2
                  /\ q.fetches = (IF PrimaryIssued(q) THEN 1 ELSE 0)
                                 + (IF AlternativeIssued(q) THEN 1 ELSE 0)
                  /\ AlternativeIssued(q) =>
                       (q.primary.kind = "response" /\ ~Ok(q.primary))
                  /\ (q.pc = "done" /\ q.alternative.kind = "response"
                        /\ ~Ok(q.alternative))
                       => q.response = ErrorResponse(q.alternative.status)
                  /\ (q.pc = "done" /\ FetchThrows \in {q.primary, q.alternative})
                       => q.response = ErrorResponse(500))
  /\ [][book.pc = "on" =>
          \A r \in BookRequests :
            (book.req[r].route = "text" /\ book'.req[r].fetches # book.req[r].fetches)
              => \/ book.req[r].pc = "lookup" /\ book'.req[r].pc = "primary"
                 \/ book.req[r].pc = "primary" /\ book'.req[r].pc = "alternative"]_vars

\* C24 witness: the primary URL answered 404, the alternative URL 503, and
\* the request ended with 503 after two fetches.
C24_Witness ==
  /\ book.pc = "on"
  /\ \E r \in BookRequests :
       /\ book.req[r].pc = "done"
       /\ book.req[r].primary = Answer(404, "")
       /\ book.req[r].alternative = Answer(503, "")
       /\ book.req[r].response.status = 503
       /\ book.req[r].fetches = 2

\* Request r2 for the text of a book read the store, without a read
\* failure, while the entry that the earlier request r1 for the same book
\* wrote was live.
ReadsLiveTextOf(r2, r1) ==
  /\ r1 # r2
  /\ book.req[r1].route = "text" /\ book.req[r2].route = "text"
  /\ book.req[r1].bookId = book.req[r2].bookId
  /\ book.req[r1].wroteAt >= 0
  /\ r1 \in book.req[r2].doneBefore
  /\ book.req[r2].lookupAt >= 0
  /\ book.req[r2].lookupAt < book.req[r1].wroteAt + BOOK_CACHE_TTL
  /\ book.req[r2].cached # Threw

\* C26 -- Book text cache hit: once a request has fetched a book's text
\* with an ok upstream response and stored it, a later request for the
\* same id that reads the store before the entry expires issues no
\* upstream fetch and returns that text, whatever the text (the empty
\* string included).
C26_BookCacheHit ==
  book.pc = "on" =>
    \A r1, r2 \in BookRequests :
      ReadsLiveTextOf(r2, r1) =>
        /\ book.req[r2].fetches = 0
        /\ book.req[r2].pc = "done"
        /\ book.req[r2].response = TextResponse(book.req[r1].text)

\* The request of the book routes that a step brings to its end with resp.
Ends(r, resp) ==
  /\ book.req[r].pc # "done"
  /\ book'.req[r].pc = "done"
  /\ book'.req[r].response = resp

\* The request holds a full result: the text of an ok upstream response, or
\* a non-empty title.
FullResult(q) ==
  IF q.route = "text"
  THEN \/ q.primary.kind = "response" /\ Ok(q.primary) /\ q.text = q.primary.body
       \/ /\ q.alternative.kind = "response"
          /\ Ok(q.alternative)
          /\ q.text = q.alternative.body
  ELSE q.primary.kind = "metadata" /\ q.primary.hasTitle
         /\ q.primary.title # "" /\ q.text = q.primary.title

\* A change of the book store is the write of a request that holds a full
\* result and returns it in that step; no other key changes.
BookWriteStep ==
  (book.pc = "on" /\ book'.store # book.store) =>
    \E r \in BookRequests :
      LET q == book.req[r]
          key == IF q.route = "text" THEN BookKey(q.bookId) ELSE TitleKey(q.bookId)
      IN  /\ q.pc = "caching"
          /\ FullResult(q)
          /\ Ends(r, IF q.route = "text" THEN TextResponse(q.text)
                     ELSE TitleResponse(q.text))
          /\ \A k \in BookKeys \ {key} : book'.store[k] = book.store[k]

\* C25 -- No cache write on error: in the analysis route, the book text
\* route and the book title route, the step in which a request ends with
\* an error response leaves the store as it is, and such a request has
\* written nothing before; the store changes only in the step of a request
\* that holds its full result (the aggregated graph, the text of an ok
\* upstream response, a non-empty title) and returns it.
C25_NoWriteOnError ==
  /\ [](\A r \in Requests :
          (pc[r] = "done" /\ response[r].status # 200) => wroteAt[r] = -1)
  /\ [](book.pc = "on" =>
          \A r \in BookRequests :
            (book.req[r].pc = "done" /\ book.req[r].response.status # 200)
              => book.req[r].wroteAt = -1)
  /\ [][/\ WriteStep
        /\ \A r \in Requests :
             (pc[r] # "done" /\ pc'[r] = "done" /\ response'[r].status # 200)
               => redis' = redis
        /\ BookWriteStep
        /\ book.pc = "on" =>
             \A r \in BookRequests :
               (book.req[r].pc # "done" /\ book'.req[r].pc = "done"
                  /\ book'.req[r].response.status # 200)
                 => book'.store = book.store]_vars

\* C25 witness: one request of the book routes
\* ended with 404 for a missing title and the other with a forwarded 503,
\* having written nothing.
C25_Witness ==
  /\ book.pc = "on"
  /\ \E r1, r2 \in BookRequests :
       /\ book.req[r1].pc = "done"
       /\ book.req[r1].route = "title"
       /\ book.req[r1].response = ErrorResponse(404)
       /\ book.req[r2].pc = "done"
       /\ book.req[r2].route = "text"
       /\ book.req[r2].response = ErrorResponse(503)
       /\ \A k \in BookKeys : ~book.store[k].present

\* C28 -- Progress is not cleared by a stale timer: while a submission is
\* in progress (loading is true) progress is not null; in particular the
\* timer left by an earlier submission does not clear it.
C28_ProgressWhileLoading ==
  (home.pc # "off" /\ home.loading) => ~home.progress.isNull

HomeLoading == home.pc # "off" /\ home.loading

\* The step is a call of handleSubmit.
Submitted == home.pc # "off" /\ home'.submits # home.submits

\* The step ends a submission.
SubmissionSettles == HomeLoading /\ ~home'.loading

\* C27 -- Page submission always settles: a call of handleSubmit with a
\* non-blank book id sets loading, and loading is set back to false in
\* the end whatever the book fetch, the title fetch and the analysis
\* request come to; at that point characterData holds the returned
\* interactions and error is empty, or characterData is null and error is
\* not empty; a call with a blank id sets error, leaves loading false and
\* starts no fetch.
C27_SubmissionSettles ==
  /\ HomeLoading ~> ~HomeLoading
  /\ [][Submitted =>
          IF Trim(home'.bookId) = << >>
          THEN /\ home'.error = "Please enter a book ID"
               /\ ~home.loading /\ ~home'.loading
               /\ home'.fetches = home.fetches
               /\ home'.pc = "idle"
          ELSE /\ home'.loading
               /\ home'.fetches = home.fetches + 1]_vars
  /\ [][SubmissionSettles =>
          \/ /\ home'.error = ""
             /\ \E o \in HomeData \ {FetchThrows} :
                  /\ AnalysisJsonSettles(o)
                  /\ home'.characterData = Data(o.value)
          \/ /\ home'.characterData = Null
             /\ home'.error # ""]_vars

\* C27 witness: a submission went through the book and title fetches and
\* ended when the analysis request was answered not ok.
C27_Witness ==
  /\ home.pc = "idle"
  /\ home.submits = 1
  /\ ~home.loading
  /\ home.fetches = 3
  /\ home.error = "Failed to analyze text"
  /\ home.characterData = Null

====
